---- MODULE Spec2Model ----
(***************************************************************************)
(* A model of shaman, a multi-agent path finder on a small 2D grid:        *)
(*   - astar.rs : space-time A* for one robot under a RightOfWay           *)
(*   - route.rs : routes and their collision test                          *)
(*   - pbs.rs   : the priority based search above the single robot planner *)
(*   - lib.rs   : Shaman::parse (initial plans) and Shaman::solve          *)
(* Option<T> is modelled as a sequence of length at most one: <<>> is None *)
(* and <<x>> is Some(x).  A Vertex is the pair <<x, y>>.                   *)
(***************************************************************************)
EXTENDS Integers, Sequences, FiniteSets, TLC

\* ------------------------------------------------------------------ bounds
\* The number of times Shaman::solve is called on one world.
MaxSolves == 2

\* astar.rs:135  const MAX_ITER: usize = 10000
MAX_ITER == 10000
\* The number of pops one A* search is followed for in this model.  A search
\* that needs more pops is cut off the way MAX_ITER cuts it off in the code.
IterCap == 32

IterLimit == IF IterCap < MAX_ITER THEN IterCap ELSE MAX_ITER

\* ------------------------------------------------------------------ helpers
None == <<>>
Some(x) == <<x>>

Range(s) == {s[k] : k \in DOMAIN s}

Last(s) == s[Len(s)]

Min2(a, b) == IF a <= b THEN a ELSE b

\* ------------------------------------------------------------------ layout.rs
\* Vertex::new
Vertex(x, y) == <<x, y>>

\* impl Add for Vertex
VAdd(a, b) == <<a[1] + b[1], a[2] + b[2]>>

\* Vertex::distance_squared
distance_squared(a, b) == (a[1] - b[1]) * (a[1] - b[1]) + (a[2] - b[2]) * (a[2] - b[2])

\* Layout::empty followed by Layout::block for every obstacle
Layout(width, height, obstacles) ==
    [space  |-> {Vertex(x, y) : x \in 0..(width - 1), y \in 0..(height - 1)} \ obstacles,
     width  |-> width,
     height |-> height]

\* is_blocked with the test of the cell left out: sensitivity of
\* CutOffGoalStopsParse
is_blocked_never(layout, v) == FALSE

\* Layout::is_blocked
is_blocked(layout, v) == v \notin layout.space

\* Layout::free_cell_count
free_cell_count(layout) == Cardinality(layout.space)

\* ------------------------------------------------------------------ astar.rs
\* Action::ALL
ALL == <<"N", "W", "S", "E", "WAIT">>

\* direction with a north that also steps east: sensitivity of RoutesWellFormed
direction_skewed(a) ==
    CASE a = "WAIT" -> <<0, 0>>
      [] a = "N"    -> <<1, -1>>
      [] a = "S"    -> <<0, 1>>
      [] a = "W"    -> <<-1, 0>>
      [] a = "E"    -> <<1, 0>>

\* Action::direction
direction(a) ==
    CASE a = "WAIT" -> Vertex(0, 0)
      [] a = "N"    -> Vertex(0, -1)
      [] a = "S"    -> Vertex(0, 1)
      [] a = "W"    -> Vertex(-1, 0)
      [] a = "E"    -> Vertex(1, 0)

\* impl Sub for Vertex: the first action of ALL whose direction is the
\* difference, Action::default() = WAIT when there is none
VSub(a, b) ==
    LET d == <<a[1] - b[1], a[2] - b[2]>>
        hits == {k \in DOMAIN ALL : direction(ALL[k]) = d}
    IN  IF hits = {} THEN "WAIT"
        ELSE ALL[CHOOSE k \in hits : \A m \in hits : k <= m]

\* Action::cost with 1 for an action that goes on straight and 2 for a turn:
\* sensitivity of ActionCostOneTwoFive
cost_one_one_two(action, previous) ==
    IF action = "WAIT" THEN 1
    ELSE IF action = previous THEN 1
    ELSE 2

\* Action::cost
cost(action, previous) ==
    IF action = "WAIT" THEN 1
    ELSE IF action = previous THEN 2
    ELSE 5

\* RightOfWay::default
EmptyRightOfWay == [temporary |-> <<>>, permanent |-> <<>>]

\* RightOfWay::at
at(constraint, time) ==
    IF time \in DOMAIN constraint.temporary
    THEN Some(constraint.temporary[time])
    ELSE LET hits == {k \in DOMAIN constraint.permanent :
                         time >= constraint.permanent[k].from}
         IN  IF hits = {} THEN None
             ELSE Some(constraint.permanent[CHOOSE k \in hits : \A m \in hits : k <= m].v)

\* add_assign without the Vec::extend of the permanent entries: sensitivity
\* of PlannedAgainstEarlier
add_assign_temporary(self, other) ==
    [temporary |-> [t \in (DOMAIN self.temporary) \cup (DOMAIN other.temporary) |->
                       IF t \in DOMAIN other.temporary
                       THEN other.temporary[t] ELSE self.temporary[t]],
     permanent |-> self.permanent]

\* impl AddAssign for RightOfWay: HashMap::extend lets the entries of other
\* overwrite equal keys, Vec::extend appends
add_assign(self, other) ==
    [temporary |-> [t \in (DOMAIN self.temporary) \cup (DOMAIN other.temporary) |->
                       IF t \in DOMAIN other.temporary
                       THEN other.temporary[t] ELSE self.temporary[t]],
     permanent |-> self.permanent \o other.permanent]

\* From<&Route> with a permanent entry that begins one tick after the arrival:
\* sensitivity of RoundTrip
RightOfWayFromOpenEnd(route) ==
    LET n == Len(route)
        keys == {route[k].time : k \in 1..(n - 1)}
    IN  [temporary |-> [t \in keys |->
                           route[CHOOSE k \in 1..(n - 1) : route[k].time = t].position],
         permanent |-> IF n = 0 THEN <<>>
                       ELSE <<[from |-> route[n].time + 1, v |-> route[n].position]>>]

\* From<&Route> that keeps the last Location only: sensitivity of
\* SideStepSolved
RightOfWayFromGoalOnly(route) ==
    [temporary |-> <<>>,
     permanent |-> IF Len(route) = 0 THEN <<>>
                   ELSE <<[from |-> route[Len(route)].time, v |-> route[Len(route)].position]>>]

\* impl From<&Route> for RightOfWay: every Location but the last is a
\* temporary entry keyed by its time (collected back to front, a later insert
\* overwrites), the last one is permanent from its time on
RightOfWayFrom(route) ==
    LET n == Len(route)
        keys == {route[k].time : k \in 1..(n - 1)}
    IN  [temporary |-> [t \in keys |->
                           route[CHOOSE k \in 1..(n - 1) :
                                    /\ route[k].time = t
                                    /\ \A m \in 1..(n - 1) : route[m].time = t => k <= m].position],
         permanent |-> IF n = 0 THEN <<>>
                       ELSE <<[from |-> route[n].time, v |-> route[n].position]>>]

\* ------------------------------------------------------------------ robot.rs
\* struct Location
Location(position, time) == [position |-> position, time |-> time]

\* ------------------------------------------------------------------ route.rs
\* Route::duration
duration(route) == IF route = <<>> THEN 0 ELSE Last(route).time

\* the first part of Route::intersection left out: sensitivity of
\* NoVertexConflict
SharedLocationsNone(self, other) == {}

\* Route::intersection, first part: the Locations both routes hold
SharedLocations(self, other) ==
    {l.position : l \in Range(self) \cap Range(other)}

\* the second part of Route::intersection left out: sensitivity of
\* SharedGoalOutOfIdeas
SharedEndNone(self, other) == {}

\* Route::intersection, second part: both routes end on the same Vertex
SharedEnd(self, other) ==
    IF self # <<>> /\ other # <<>> /\ Last(self).position = Last(other).position
    THEN {Last(self).position}
    ELSE {}

\* the third part of Route::intersection left out: sensitivity of NoSwap
SwapsNone(self, other) == {}

\* Route::intersection, third part: a window (now, then) of self and the
\* first window (a, b) of other with a.time = now.time exchange positions
Swaps(self, other) ==
    LET SwapAt(k) ==
            LET now  == self[k]
                then == self[k + 1]
                hits == {m \in 1..(Len(other) - 1) : other[m].time = now.time}
            IN  /\ hits # {}
                /\ LET m == CHOOSE m \in hits : \A q \in hits : m <= q
                   IN  /\ other[m + 1].position = now.position
                       /\ other[m].position = then.position
    IN  UNION {{self[k].position, self[k + 1].position} :
                  k \in {k \in 1..(Len(self) - 1) : SwapAt(k)}}

\* Route::intersection without its third part: sensitivity of
\* ConflictsIffClasses
intersection_without_swaps(self, other) ==
    SharedLocations(self, other) \cup SharedEnd(self, other)

\* Route::intersection (the Vec as the set of its elements)
intersection(self, other) ==
    SharedLocations(self, other) \cup SharedEnd(self, other) \cup Swaps(self, other)

\* conflicts without its negation: sensitivity of Idempotence
conflicts_negated(self, other) == intersection(self, other) = {}

\* Route::conflicts
conflicts(self, other) == intersection(self, other) # {}

\* ------------------------------------------------------------------ astar.rs, solve
\* struct Item; came_from is None or Some(parent item)
Item(location, g_plus_h, came_from) ==
    [location |-> location, cost |-> g_plus_h, came_from |-> came_from]

\* astar.rs:144-151  the Route read back along came_from
RECURSIVE Backtrack(_)
Backtrack(item) ==
    IF item.came_from = None THEN <<item.location>>
    ELSE Append(Backtrack(item.came_from[1]), item.location)

\* solve with a start Location of time 1: sensitivity of RoutesFromStartToGoal
NewSearchLate(layout, start, goal, constraint) ==
    [open       |-> {[location |-> [position |-> start, time |-> 1], cost |-> 0,
                      came_from |-> <<>>]},
     scores     |-> ([position |-> start, time |-> 1] :> 0),
     i          |-> 0,
     goal       |-> goal,
     constraint |-> constraint]

\* solve without the push of the start item: sensitivity of
\* StartOnGoalPlanned
NewSearchUnopened(layout, start, goal, constraint) ==
    [open       |-> {},
     scores     |-> ([position |-> start, time |-> 0] :> 0),
     i          |-> 0,
     goal       |-> goal,
     constraint |-> constraint]

\* astar.rs:118-132  the locals of solve before its loop
NewSearch(layout, start, goal, constraint) ==
    LET s == Location(start, 0)
    IN  [open       |-> {Item(s, 0, None)},
         scores     |-> (s :> 0),
         i          |-> 0,
         goal       |-> goal,
         constraint |-> constraint]

\* impl Ord for Item, BinaryHeap::pop: an item of least cost; which one of
\* several of equal cost the heap hands out is left open
Poppable(open) == {item \in open : \A o \in open : item.cost <= o.cost}

\* the candidate two ticks after the item: sensitivity of PushedWithinPops
CandidateSkipping(item, action) ==
    Location(VAdd(item.location.position, direction(action)), item.location.time + 2)

\* astar.rs:160-163
Candidate(item, action) ==
    Location(VAdd(item.location.position, direction(action)), item.location.time + 1)

\* the same location check left out: sensitivity of ReturnedRouteRespects
VertexBlockedNever(constraint, candidate) == FALSE

\* astar.rs:169-176  same location constraint check
VertexBlocked(constraint, candidate) ==
    at(constraint, candidate.time) = Some(candidate.position)

\* the swapping check left out: sensitivity of CorridorSwapOutOfIdeas
SwapBlockedNever(constraint, item, candidate) == FALSE

\* astar.rs:178-186  swapping location constraint check
SwapBlocked(constraint, item, candidate) ==
    /\ at(constraint, item.location.time) = Some(candidate.position)
    /\ at(constraint, candidate.time) = Some(item.location.position)

\* astar.rs:187-191
PreviousAction(item) ==
    IF item.came_from = None THEN "WAIT"
    ELSE VSub(item.location.position, item.came_from[1].location.position)

\* astar.rs:193
TentativeG(scores, item, action) ==
    scores[item.location] + cost(action, PreviousAction(item))

\* astar.rs:155-205  the actions of one node expansion that push a candidate
Pushing(layout, s, item) ==
    {a \in Range(ALL) :
        LET candidate == Candidate(item, a)
        IN  /\ ~is_blocked(layout, candidate.position)
            /\ ~VertexBlocked(s.constraint, candidate)
            /\ ~SwapBlocked(s.constraint, item, candidate)
            /\ \/ candidate \notin DOMAIN s.scores
               \/ TentativeG(s.scores, item, a) < s.scores[candidate]}

\* the turn of the loop without its i += 1: sensitivity of AstarTerminates
ExpandUncounted(layout, s, item) ==
    LET acts == Pushing(layout, s, item)
        news == {Candidate(item, a) : a \in acts}
    IN  [s EXCEPT
           !.scores = [l \in (DOMAIN s.scores) \cup news |->
                          IF l \in news
                          THEN TentativeG(s.scores, item,
                                          CHOOSE a \in acts : Candidate(item, a) = l)
                          ELSE s.scores[l]],
           !.open = (@ \ {item}) \cup
                    {Item(Candidate(item, a),
                          TentativeG(s.scores, item, a)
                            + distance_squared(Candidate(item, a).position, s.goal),
                          Some(item)) : a \in acts}]

\* astar.rs:137-205  one turn of the loop that expands the popped item
Expand(layout, s, item) ==
    LET acts == Pushing(layout, s, item)
        G(a) == TentativeG(s.scores, item, a)
        news == {Candidate(item, a) : a \in acts}
        ActOf(l) == CHOOSE a \in acts : Candidate(item, a) = l
    IN  [s EXCEPT
           !.i = @ + 1,
           !.scores = [l \in (DOMAIN s.scores) \cup news |->
                          IF l \in news THEN G(ActOf(l)) ELSE s.scores[l]],
           !.open = (@ \ {item}) \cup
                    {Item(Candidate(item, a),
                          G(a) + distance_squared(Candidate(item, a).position, s.goal),
                          Some(item)) : a \in acts}]

\* ------------------------------------------------------------------ robot.rs
\* Robot::new followed by Robot::set_goal
Robot(name, position, goal) ==
    [name |-> name, position |-> position, goal |-> goal, route |-> <<>>]

\* ------------------------------------------------------------------ pbs.rs
\* Acyclic::new
NoPriorities == [nodes |-> <<>>, edges |-> {}]

\* Idea::cost
IdeaCost(idea) ==
    LET names == DOMAIN idea.robots
        RECURSIVE Sum(_)
        Sum(S) == IF S = {} THEN 0
                  ELSE LET n == CHOOSE n \in S : TRUE
                       IN  duration(idea.robots[n].route) + Sum(S \ {n})
    IN  Sum(names)

\* BinaryHeap::pop that hands out any idea: sensitivity of LowestCostFirst
PoppableIdeasAny(queue) == DOMAIN queue

\* impl Ord for Idea, BinaryHeap::pop: the index of an idea of least cost;
\* which one of several of equal cost the heap hands out is left open
PoppableIdeas(queue) ==
    {k \in DOMAIN queue : \A m \in DOMAIN queue : IdeaCost(queue[k]) <= IdeaCost(queue[m])}

RemoveAt(s, k) == SubSeq(s, 1, k - 1) \o SubSeq(s, k + 1, Len(s))

\* pbs.rs:40-45  robots.values().tuple_combinations().find(conflicts): the
\* pairs in the iteration order of the map, the first conflicting one
ConflictingPairs(idea, order) ==
    {p \in (DOMAIN order) \X (DOMAIN order) :
        /\ p[1] < p[2]
        /\ conflicts(idea.robots[order[p[1]]].route, idea.robots[order[p[2]]].route)}

FirstConflict(idea, order) ==
    LET ps == ConflictingPairs(idea, order)
    IN  IF ps = {} THEN None
        ELSE LET p == CHOOSE p \in ps : \A q \in ps :
                          \/ p[1] < q[1]
                          \/ p[1] = q[1] /\ p[2] <= q[2]
             IN  Some(<<order[p[1]], order[p[2]]>>)

\* Idea::find_or_create_node
find_or_create_node(priorities, name) ==
    IF name \in Range(priorities.nodes) THEN priorities
    ELSE [priorities EXCEPT !.nodes = Append(@, name)]

\* contains_edge that never finds the edge: sensitivity of PbsTerminates
contains_edge_never(priorities, b, s) == FALSE

\* StableDiGraph::contains_edge
contains_edge(priorities, b, s) == <<b, s>> \in priorities.edges

\* the nodes reachable from n along one or more edges
RECURSIVE ReachFrom(_, _, _)
ReachFrom(edges, frontier, seen) ==
    LET next == {e[2] : e \in {e \in edges : e[1] \in frontier}} \ seen
    IN  IF next = {} THEN seen ELSE ReachFrom(edges, next, seen \cup next)

Downstream(edges, n) == ReachFrom(edges, {n}, {})

\* try_add_edge that refuses self loops only: sensitivity of PrioritiesAcyclic
ClosesCycleSelfOnly(priorities, b, s) == b = s

\* Acyclic::try_add_edge is an error when the edge b -> s would close a cycle
ClosesCycle(priorities, b, s) == b = s \/ b \in Downstream(priorities.edges, s)

\* pbs.rs:101-105  toposort: an order of all nodes in which every edge points
\* forward; which of several such orders petgraph returns is left open
TopoOrders(priorities) ==
    LET n == Len(priorities.nodes)
        names == Range(priorities.nodes)
    IN  {o \in [1..n -> names] :
            /\ \A a, b \in 1..n : a # b => o[a] # o[b]
            /\ \A e \in priorities.edges :
                  \E a, b \in 1..n : a < b /\ o[a] = e[1] /\ o[b] = e[2]}

\* ------------------------------------------------------------------ worlds
\* The maps the model is run on, each with the robots put on it: corridors
\* of two, three and four cells, a corridor cut in two by an obstacle, a
\* square, a corridor of three cells with a bay below its middle, and two
\* rows of three cells with a corner cut off, for one robot.
Corridors ==
    {[layout |-> Layout(2, 1, {}),             names |-> {"A", "B"}],
     [layout |-> Layout(3, 1, {}),             names |-> {"A", "B"}],
     [layout |-> Layout(3, 1, {}),             names |-> {"A", "B", "C"}],
     [layout |-> Layout(3, 1, {Vertex(1, 0)}), names |-> {"A", "B"}],
     [layout |-> Layout(3, 2, {Vertex(0, 1), Vertex(2, 1)}), names |-> {"A", "B"}]}

Scenes ==
    Corridors \cup
    {[layout |-> Layout(4, 1, {}),             names |-> {"A", "B"}],
     [layout |-> Layout(2, 2, {}),             names |-> {"A", "B"}],
     [layout |-> Layout(3, 2, {Vertex(2, 0)}), names |-> {"A"}]}

\* the cells in reading order
Before(u, v) == u[2] < v[2] \/ (u[2] = v[2] /\ u[1] < v[1])

NameBefore(m, n) == <<m, n>> \in {<<"A", "B">>, <<"A", "C">>, <<"B", "C">>}

\* where the start and the goal of a robot may lie.  On a map with several
\* robots every robot stands on a free cell of its own and has a goal on a
\* free cell.  The robot that is alone is handed to astar::solve with any
\* start and any goal: free, an obstacle, or beyond the edge of the grid.
Places(scene) ==
    IF Cardinality(scene.names) > 1 THEN scene.layout.space
    ELSE {Vertex(x, y) : x \in 0..scene.layout.width, y \in 0..(scene.layout.height - 1)}

\* The worlds are taken up to the names of the robots: the robots are named
\* in the reading order of their start cells, and the order in which the map
\* of robots is walked is left open instead.
Worlds(scene) ==
    {w \in [scene.names -> Places(scene) \X Places(scene)] :
        \A m, n \in scene.names : NameBefore(m, n) => Before(w[m][1], w[n][1])}

\* every world of the scenes, as a layout with the start and the goal of
\* each robot
SetupsOf(scenes) ==
    UNION {{[layout |-> scene.layout, ends |-> w] : w \in Worlds(scene)} : scene \in scenes}

\* two rows of three free cells with A and B on the two ends of the upper
\* row, each with the start of the other as its goal
SideStep ==
    [layout |-> Layout(3, 2, {}),
     ends   |-> ("A" :> <<Vertex(0, 0), Vertex(2, 0)>>) @@
                ("B" :> <<Vertex(2, 0), Vertex(0, 0)>>)]

\* the same grid with three robots, the map
\*     bAB
\*     caC
\* A goes one cell down while B and C cross to the left, each along its row
CrossTraffic ==
    [layout |-> Layout(3, 2, {}),
     ends   |-> ("A" :> <<Vertex(1, 0), Vertex(1, 1)>>) @@
                ("B" :> <<Vertex(2, 0), Vertex(0, 0)>>) @@
                ("C" :> <<Vertex(2, 1), Vertex(0, 1)>>)]

\* a crossroads of five cells, the map (# is blocked)
\*     #c#
\*     AxB        A's goal is B's cell, B's goal is A's cell
\*     #C#
\* all three routes pass the middle cell x at time 1
Crossing ==
    [layout |-> Layout(3, 3, {Vertex(0, 0), Vertex(2, 0), Vertex(0, 2), Vertex(2, 2)}),
     ends   |-> ("A" :> <<Vertex(0, 1), Vertex(2, 1)>>) @@
                ("B" :> <<Vertex(2, 1), Vertex(0, 1)>>) @@
                ("C" :> <<Vertex(1, 2), Vertex(1, 0)>>)]

\* the crossroads with C's goal on the middle cell, which A and B pass
\*     #A#
\*     BcC        A's goal is the lower cell, B's goal is C's cell
\*     #a#
GoalOnCrossing ==
    [layout |-> Layout(3, 3, {Vertex(0, 0), Vertex(2, 0), Vertex(0, 2), Vertex(2, 2)}),
     ends   |-> ("A" :> <<Vertex(1, 0), Vertex(1, 2)>>) @@
                ("B" :> <<Vertex(0, 1), Vertex(2, 1)>>) @@
                ("C" :> <<Vertex(2, 1), Vertex(1, 1)>>)]

\* a row of six cells, the fifth blocked, the map
\*     ..A.#a
\* A has room to both sides and a goal no route leads to, so that
\* astar::solve runs until MAX_ITER
CutOffGoal ==
    [layout |-> Layout(6, 1, {Vertex(4, 0)}),
     ends   |-> ("A" :> <<Vertex(2, 0), Vertex(5, 0)>>)]

\* single worlds on maps too wide to be run with every start and goal
Given == {SideStep, CrossTraffic, Crossing, GoalOnCrossing, CutOffGoal}

Orders(S) ==
    {o \in [1..Cardinality(S) -> S] : \A a, b \in DOMAIN o : a # b => o[a] # o[b]}

\* ------------------------------------------------------------------ state
VARIABLES
    layout,       \* Shaman::layout, Pbs::layout
    robots,       \* Shaman::robots: name -> Robot
    order,        \* the iteration order of the FxHashMap of robots
    pc,           \* where the run stands
    todo,         \* lib.rs:39  the robots Shaman::parse has still to plan
    search,       \* the locals of the running astar::solve
    queue,        \* Pbs::queue, in the order of the pushes
    idea,         \* pbs.rs:40  the idea popped last
    pending,      \* pbs.rs:59  the (boss, subordinate) pairs still to branch on
    child,        \* pbs.rs:126 the child Idea::branch is building
    plan_order,   \* pbs.rs:108 the rest of the topological order in Idea::plan
    constraints,  \* pbs.rs:107 the RightOfWay summed up so far in Idea::plan
    result,       \* what the run returned: None while it is running
    solves,       \* the calls of Shaman::solve so far
    replay        \* lib.rs:138  the loop of level: its range and its turns so far

vars == <<layout, robots, order, pc, todo, search, queue, idea, pending, child,
          plan_order, constraints, result, solves, replay>>

NoSearch == [open |-> {}, scores |-> <<>>, i |-> 0, goal |-> <<>>,
             constraint |-> EmptyRightOfWay]

NoIdea == [robots |-> <<>>, priorities |-> NoPriorities]

\* parser::parse has returned the Shaman; Shaman::parse is about to plan
InitFrom(setups) ==
    /\ \E s \in setups :
          /\ layout = s.layout
          /\ robots = [n \in DOMAIN s.ends |-> Robot(n, s.ends[n][1], s.ends[n][2])]
    /\ order \in Orders(DOMAIN robots)
    /\ todo = order
    /\ pc = "parse"
    /\ search = NoSearch
    /\ queue = <<>>
    /\ idea = NoIdea
    /\ pending = <<>>
    /\ child = NoIdea
    /\ plan_order = <<>>
    /\ constraints = EmptyRightOfWay
    /\ result = None
    /\ solves = 0
    /\ replay = None

InitOn(scenes) == InitFrom(SetupsOf(scenes))

Init == InitFrom(SetupsOf(Scenes) \cup Given)

\* ------------------------------------------------------------------ astar::solve
InAstar == pc \in {"parse.astar", "plan.astar"}

\* solve without its second ensure! line: sensitivity of BlockedEndsNotFree
EnsuredStartOnly(robot) == ~is_blocked(layout, robot.position)

\* astar.rs:118-119  the two ensure! lines
Ensured(robot) ==
    /\ ~is_blocked(layout, robot.position)
    /\ ~is_blocked(layout, robot.goal)

\* robot.rs:88-99  Robot::plan got Ok(route) from astar::solve, seen from the
\* loop that called it: lib.rs:39-41 or pbs.rs:109-113
Planned(route) ==
    IF pc = "parse.astar"
    THEN /\ robots' = [robots EXCEPT ![Head(todo)].route = route]
         /\ todo' = Tail(todo)
         /\ pc' = "parse"
         /\ UNCHANGED <<child, plan_order, constraints, pending, result>>
    ELSE /\ child' = [child EXCEPT !.robots[Head(plan_order)].route = route]
         /\ constraints' = add_assign(constraints, RightOfWayFrom(route))
         /\ plan_order' = Tail(plan_order)
         /\ pc' = "plan"
         /\ UNCHANGED <<robots, todo, pending, result>>

\* an error of Robot::plan that ends the run wherever it is raised:
\* sensitivity of LocalRecovery
NotPlannedSurfaces(error) ==
    /\ result' = Some(error)
    /\ pc' = "done"
    /\ UNCHANGED <<robots, todo, child, plan_order, constraints, pending>>

\* Robot::plan got an error: `?` in Shaman::parse hands it to the caller
\* (lib.rs:40), `.ok()?` in Idea::branch drops the child (pbs.rs:137)
NotPlanned(error) ==
    IF pc \in {"parse", "parse.astar"}
    THEN /\ result' = Some(error)
         /\ pc' = "done"
         /\ UNCHANGED <<robots, todo, child, plan_order, constraints, pending>>
    ELSE /\ pending' = Tail(pending)
         /\ pc' = "branch"
         /\ child' = NoIdea
         /\ plan_order' = <<>>
         /\ constraints' = EmptyRightOfWay
         /\ UNCHANGED <<robots, todo, result>>

\* astar.rs:137-152  the popped item stands on the goal
AstarFound ==
    /\ InAstar
    /\ search.i < IterLimit
    /\ \E item \in Poppable(search.open) :
          /\ item.location.position = search.goal
          /\ Planned(Backtrack(item))
    /\ search' = NoSearch
    /\ UNCHANGED <<layout, solves, replay, order, queue, idea>>

\* astar.rs:137-205  the popped item is expanded
AstarExpand ==
    /\ InAstar
    /\ search.i < IterLimit
    /\ \E item \in Poppable(search.open) :
          /\ item.location.position # search.goal
          /\ search' = Expand(layout, search, item)
    /\ UNCHANGED <<layout, solves, replay, robots, order, pc, todo, queue, idea, pending, child,
                   plan_order, constraints, result>>

\* astar.rs:137, 208-213  the open set is empty
AstarExhausted ==
    /\ InAstar
    /\ search.open = {}
    /\ NotPlanned("RouteNotFound")
    /\ search' = NoSearch
    /\ UNCHANGED <<layout, solves, replay, order, queue, idea>>

\* the loop left after MAX_ITER turns hands back an empty route instead of
\* the error: sensitivity of IsolatedCellsPlanning
AstarGivesUpWithEmptyRoute ==
    /\ InAstar
    /\ search.open # {}
    /\ search.i >= IterLimit
    /\ Planned(<<>>)
    /\ search' = NoSearch
    /\ UNCHANGED <<layout, solves, replay, order, queue, idea>>

\* astar.rs:138-140, 208-213  the loop is left after MAX_ITER turns
AstarGivesUp ==
    /\ InAstar
    /\ search.open # {}
    /\ search.i >= IterLimit
    /\ NotPlanned("RouteNotFound")
    /\ search' = NoSearch
    /\ UNCHANGED <<layout, solves, replay, order, queue, idea>>

\* ------------------------------------------------------------------ Shaman::parse
\* lib.rs:39-41  the next robot is planned without constraints
ParsePlan ==
    /\ pc = "parse"
    /\ todo # <<>>
    /\ LET robot == robots[Head(todo)]
       IN  IF Ensured(robot)
           THEN /\ search' = NewSearch(layout, robot.position, robot.goal, EmptyRightOfWay)
                /\ pc' = "parse.astar"
                /\ UNCHANGED <<robots, todo, child, plan_order, constraints, pending, result>>
           ELSE /\ NotPlanned("NotFree")
                /\ UNCHANGED search
    /\ UNCHANGED <<layout, solves, replay, order, queue, idea>>

\* lib.rs:42, 58-60, pbs.rs:18-31  Shaman::parse returns Ok, Shaman::solve
\* builds the Pbs with the first idea on its queue
ParseDone ==
    /\ pc = "parse"
    /\ todo = <<>>
    /\ queue' = <<[robots |-> robots, priorities |-> NoPriorities]>>
    /\ pc' = "pop"
    /\ solves' = solves + 1
    /\ UNCHANGED <<layout, replay, robots, order, todo, search, idea, pending, child,
                   plan_order, constraints, result>>

\* ------------------------------------------------------------------ Pbs::solve
\* pbs.rs:40-57  the popped idea has no conflicting pair: it is returned
PopSolved ==
    /\ pc = "pop"
    /\ \E k \in PoppableIdeas(queue) :
          /\ FirstConflict(queue[k], order) = None
          /\ robots' = queue[k].robots
          /\ idea' = queue[k]
          /\ queue' = RemoveAt(queue, k)
    /\ result' = Some("Ok")
    /\ pc' = "done"
    /\ UNCHANGED <<layout, solves, replay, order, todo, search, pending, child, plan_order, constraints>>

\* pbs.rs:40-59  the popped idea has a conflicting pair (a, b)
PopConflict ==
    /\ pc = "pop"
    /\ \E k \in PoppableIdeas(queue) :
          /\ FirstConflict(queue[k], order) # None
          /\ LET ab == FirstConflict(queue[k], order)[1]
             IN  pending' = <<<<ab[1], ab[2]>>, <<ab[2], ab[1]>>>>
          /\ idea' = queue[k]
          /\ queue' = RemoveAt(queue, k)
    /\ pc' = "branch"
    /\ UNCHANGED <<layout, solves, replay, robots, order, todo, search, child, plan_order,
                   constraints, result>>

\* pbs.rs:40, 66  the queue is empty
OutOfIdeas ==
    /\ pc = "pop"
    /\ queue = <<>>
    /\ result' = Some("OutOfIdeas")
    /\ pc' = "done"
    /\ UNCHANGED <<layout, solves, replay, robots, order, todo, search, queue, idea, pending, child,
                   plan_order, constraints>>

\* pbs.rs:126-129  the clone of the idea with both nodes in its graph
WithNodes(boss, subordinate) ==
    find_or_create_node(find_or_create_node(idea.priorities, boss), subordinate)

\* pbs.rs:130-132  the edge is in the graph already: no child
BranchKnownEdge ==
    /\ pc = "branch"
    /\ pending # <<>>
    /\ contains_edge(WithNodes(Head(pending)[1], Head(pending)[2]),
                     Head(pending)[1], Head(pending)[2])
    /\ pending' = Tail(pending)
    /\ UNCHANGED <<layout, solves, replay, robots, order, pc, todo, search, queue, idea, child,
                   plan_order, constraints, result>>

\* pbs.rs:133-135  the edge would close a cycle: no child
BranchCycle ==
    /\ pc = "branch"
    /\ pending # <<>>
    /\ LET g == WithNodes(Head(pending)[1], Head(pending)[2])
       IN  /\ ~contains_edge(g, Head(pending)[1], Head(pending)[2])
           /\ ClosesCycle(g, Head(pending)[1], Head(pending)[2])
    /\ pending' = Tail(pending)
    /\ UNCHANGED <<layout, solves, replay, robots, order, pc, todo, search, queue, idea, child,
                   plan_order, constraints, result>>

\* Idea::plan that plans every robot of the idea, not the nodes of its graph
\* only: sensitivity of ChildKeepsRoutesOffGraph
BranchPlanOfAll ==
    /\ pc = "branch"
    /\ pending # <<>>
    /\ LET g == WithNodes(Head(pending)[1], Head(pending)[2])
           e == <<Head(pending)[1], Head(pending)[2]>>
           h == [g EXCEPT !.edges = @ \cup {e}]
           names == DOMAIN idea.robots
           n == Cardinality(names)
       IN  /\ ~contains_edge(g, e[1], e[2])
           /\ ~ClosesCycle(g, e[1], e[2])
           /\ child' = [idea EXCEPT !.priorities = h]
           /\ plan_order' \in {o \in [1..n -> names] :
                                /\ \A a, b \in 1..n : a # b => o[a] # o[b]
                                /\ \A f \in h.edges :
                                      \E a, b \in 1..n : a < b /\ o[a] = f[1] /\ o[b] = f[2]}
           /\ pc' = "plan"
           /\ UNCHANGED result
    /\ constraints' = EmptyRightOfWay
    /\ UNCHANGED <<layout, solves, replay, robots, order, todo, search, queue, idea, pending>>

\* pbs.rs:133, 137, 101-107  the edge is added and Idea::plan sorts the
\* graph; toposort(..).expect(..) panics on a graph with a cycle
BranchPlan ==
    /\ pc = "branch"
    /\ pending # <<>>
    /\ LET g == WithNodes(Head(pending)[1], Head(pending)[2])
           e == <<Head(pending)[1], Head(pending)[2]>>
           h == [g EXCEPT !.edges = @ \cup {e}]
       IN  /\ ~contains_edge(g, e[1], e[2])
           /\ ~ClosesCycle(g, e[1], e[2])
           /\ child' = [idea EXCEPT !.priorities = h]
           /\ IF TopoOrders(h) = {}
              THEN /\ plan_order' = <<>>
                   /\ result' = Some("Panic")
                   /\ pc' = "done"
              ELSE /\ plan_order' \in TopoOrders(h)
                   /\ pc' = "plan"
                   /\ UNCHANGED result
    /\ constraints' = EmptyRightOfWay
    /\ UNCHANGED <<layout, solves, replay, robots, order, todo, search, queue, idea, pending>>

\* pbs.rs:108-112  the next robot of the order is planned under the
\* constraints summed up so far
PlanNext ==
    /\ pc = "plan"
    /\ plan_order # <<>>
    /\ LET robot == child.robots[Head(plan_order)]
       IN  IF Ensured(robot)
           THEN /\ search' = NewSearch(layout, robot.position, robot.goal, constraints)
                /\ pc' = "plan.astar"
                /\ UNCHANGED <<robots, todo, child, plan_order, constraints, pending, result>>
           ELSE /\ NotPlanned("NotFree")
                /\ UNCHANGED search
    /\ UNCHANGED <<layout, solves, replay, order, queue, idea>>

\* pbs.rs:115, 139, 60-62  Idea::plan is through: the child is pushed
PlanDone ==
    /\ pc = "plan"
    /\ plan_order = <<>>
    /\ queue' = Append(queue, child)
    /\ pending' = Tail(pending)
    /\ child' = NoIdea
    /\ constraints' = EmptyRightOfWay
    /\ pc' = "branch"
    /\ UNCHANGED <<layout, solves, replay, robots, order, todo, search, idea, plan_order, result>>

\* pbs.rs:59-64  both pairs are dealt with: back to the head of the loop
BranchesDone ==
    /\ pc = "branch"
    /\ pending = <<>>
    /\ pc' = "pop"
    /\ UNCHANGED <<layout, solves, replay, robots, order, todo, search, queue, idea, pending, child,
                   plan_order, constraints, result>>

\* lib.rs:58-60, pbs.rs:18-31  Shaman::solve is called on the world an
\* earlier call returned: a new Pbs with that world as the first idea
SolveAgain ==
    /\ pc = "done"
    /\ result = Some("Ok")
    /\ solves < MaxSolves
    /\ queue' = <<[robots |-> robots, priorities |-> NoPriorities]>>
    /\ idea' = NoIdea
    /\ result' = None
    /\ solves' = solves + 1
    /\ pc' = "pop"
    /\ UNCHANGED <<layout, replay, robots, order, todo, search, pending, child,
                   plan_order, constraints>>

\* Robot::simulate: the front of the route is popped and becomes the
\* position; a robot without route stays where it is
simulate(robot) ==
    IF robot.route = <<>> THEN robot
    ELSE [robot EXCEPT !.position = Head(robot.route).position,
                       !.route = Tail(robot.route)]

\* simulation_duration with min for max: sensitivity of ReplayedToGoals
simulation_duration_least(rs) ==
    LET ds == {duration(rs[n].route) : n \in DOMAIN rs}
    IN  IF ds = {} THEN 0 ELSE CHOOSE d \in ds : \A e \in ds : d <= e

\* Shaman::simulation_duration
simulation_duration(rs) ==
    LET ds == {duration(rs[n].route) : n \in DOMAIN rs}
    IN  IF ds = {} THEN 0 ELSE CHOOSE d \in ds : \A e \in ds : d >= e

\* lib.rs:138  level comes to its loop with the solved world: the range
\* 0..=simulation_duration() is fixed here
ReplayStart ==
    /\ pc = "done"
    /\ result = Some("Ok")
    /\ replay' = Some([span |-> simulation_duration(robots), ticks |-> 0])
    /\ pc' = "replay"
    /\ UNCHANGED <<layout, solves, robots, order, todo, search, queue, idea, pending,
                   child, plan_order, constraints, result>>

\* lib.rs:138-139, 52-56  one turn of the loop: Shaman::simulate
Simulate ==
    /\ pc = "replay"
    /\ replay[1].ticks <= replay[1].span
    /\ robots' = [n \in DOMAIN robots |-> simulate(robots[n])]
    /\ replay' = Some([replay[1] EXCEPT !.ticks = @ + 1])
    /\ UNCHANGED <<layout, solves, order, pc, todo, search, queue, idea, pending,
                   child, plan_order, constraints, result>>

\* lib.rs:138, 148  the range is used up: level returns
ReplayDone ==
    /\ pc = "replay"
    /\ replay[1].ticks > replay[1].span
    /\ pc' = "shown"
    /\ UNCHANGED <<layout, solves, replay, robots, order, todo, search, queue, idea,
                   pending, child, plan_order, constraints, result>>

Next ==
    \/ ParsePlan
    \/ ParseDone
    \/ AstarFound
    \/ AstarExpand
    \/ AstarExhausted
    \/ AstarGivesUp
    \/ PopSolved
    \/ PopConflict
    \/ OutOfIdeas
    \/ BranchKnownEdge
    \/ BranchCycle
    \/ BranchPlan
    \/ PlanNext
    \/ PlanDone
    \/ BranchesDone
    \/ SolveAgain
    \/ ReplayStart
    \/ Simulate
    \/ ReplayDone

Spec == Init /\ [][Next]_vars

\* the program is one sequential thread that runs as long as it has a step
\* and is followed to its end on the corridors
FairSpec == InitOn(Corridors) /\ [][Next]_vars /\ WF_vars(Next)

\* ------------------------------------------------------------------ properties
\* Pbs::solve has returned Ok(Shaman): robots holds the returned world
Returned == pc = "done" /\ result = Some("Ok")

\* where a robot with this route is at time t: on the Location of that time,
\* and on the last one (its goal) from the end of the route on
PositionAt(route, t) ==
    IF t >= Last(route).time THEN Last(route).position
    ELSE (CHOOSE l \in Range(route) : l.time = t).position

\* the latest arrival of the world
Horizon ==
    CHOOSE d \in {duration(robots[n].route) : n \in DOMAIN robots} :
        \A n \in DOMAIN robots : duration(robots[n].route) <= d

\* C1: in a returned world no robot j is on the goal of another robot i at a
\* time t at or after the arrival of i, j holding its own goal once arrived.
GoalHoldRespected ==
    Returned =>
        \A i, j \in DOMAIN robots : i # j =>
            \A t \in duration(robots[i].route)..(Horizon + 1) :
                PositionAt(robots[j].route, t) # Last(robots[i].route).position

\* C2: in a returned world two robots are never on the same cell at a time
\* up to the earlier of their two arrivals.
NoVertexConflict ==
    Returned =>
        \A i, j \in DOMAIN robots : i # j =>
            \A t \in 0..Min2(duration(robots[i].route), duration(robots[j].route)) :
                PositionAt(robots[i].route, t) # PositionAt(robots[j].route, t)

\* a world was returned after PBS had to order two robots that both moved
ReturnedAfterReplan ==
    /\ Returned
    /\ idea.priorities.edges # {}
    /\ \E i, j \in DOMAIN robots :
          /\ i # j
          /\ duration(robots[i].route) > 0
          /\ duration(robots[j].route) > 0

\* C3: in a returned world no two robots exchange their two cells across one
\* step, at any time, a robot holding its goal once arrived.
NoSwap ==
    Returned =>
        \A i, j \in DOMAIN robots : i # j =>
            \A t \in 0..(Horizon + 1) :
                ~ /\ PositionAt(robots[i].route, t) # PositionAt(robots[j].route, t)
                  /\ PositionAt(robots[i].route, t) = PositionAt(robots[j].route, t + 1)
                  /\ PositionAt(robots[j].route, t) = PositionAt(robots[i].route, t + 1)

\* a world returned after PBS had to order two robots, in which one robot
\* enters, at some step, the cell that another robot leaves at that step
ReturnedFollowing ==
    /\ Returned
    /\ idea.priorities.edges # {}
    /\ \E i, j \in DOMAIN robots : \E t \in 0..Horizon :
          /\ i # j
          /\ PositionAt(robots[i].route, t + 1) = PositionAt(robots[j].route, t)
          /\ PositionAt(robots[j].route, t + 1) # PositionAt(robots[j].route, t)

\* every robot record of the state that holds a route astar::solve returned
\* (the replay pops the routes of the world it shows)
PlannedRobots ==
    LET Of(rs) == {rs[n] : n \in DOMAIN rs}
    IN  {r \in (IF pc \in {"replay", "shown"} THEN {} ELSE Of(robots))
                \cup Of(idea.robots) \cup Of(child.robots)
                \cup UNION {Of(queue[k].robots) : k \in DOMAIN queue} :
            r.route # <<>>}

Abs(x) == IF x < 0 THEN -x ELSE x

\* the cells of the rectangle that hold no obstacle
OnFreeCell(v) ==
    /\ v[1] \in 0..(layout.width - 1)
    /\ v[2] \in 0..(layout.height - 1)
    /\ v \in layout.space

\* C4: every route astar::solve returned is well formed: the times of
\* consecutive Locations are t and t + 1, consecutive positions are equal or
\* one unit step apart along one axis, and every position is a free cell of
\* the grid.
RoutesWellFormed ==
    \A r \in PlannedRobots :
        /\ \A k \in 1..(Len(r.route) - 1) :
              /\ r.route[k + 1].time = r.route[k].time + 1
              /\ Abs(r.route[k + 1].position[1] - r.route[k].position[1])
                   + Abs(r.route[k + 1].position[2] - r.route[k].position[2]) <= 1
        /\ \A k \in 1..Len(r.route) : OnFreeCell(r.route[k].position)

\* a route planned under the RightOfWay of another robot that waits at one
\* step and moves at another
RouteWithWaitAndMove ==
    /\ pc = "plan"
    /\ constraints.permanent # <<>>
    /\ \E n \in DOMAIN child.robots :
          LET route == child.robots[n].route
          IN  /\ n \notin Range(plan_order)
              /\ \E k \in 1..(Len(route) - 1) : route[k + 1].position = route[k].position
              /\ \E k \in 1..(Len(route) - 1) : route[k + 1].position # route[k].position

\* C5: every route astar::solve returned starts with the Location (start, 0)
\* and ends on the goal, at a time D >= 0 that is Route::duration of it and
\* the number of its Locations minus one.
RoutesFromStartToGoal ==
    \A r \in PlannedRobots :
        /\ r.route[1] = Location(r.position, 0)
        /\ Last(r.route).position = r.goal
        /\ Last(r.route).time >= 0
        /\ duration(r.route) = Last(r.route).time
        /\ duration(r.route) = Len(r.route) - 1

\* a returned route of three or more Locations beside one of a single Location
LongAndShortRoute ==
    /\ \E r \in PlannedRobots : Len(r.route) >= 3
    /\ \E r \in PlannedRobots : Len(r.route) = 1 /\ r.position = r.goal

\* every idea the state holds: the frontier, the popped idea and the child
\* under construction
Ideas == Range(queue) \cup {idea, child}

\* a non-empty set of nodes each with an edge into the set holds a cycle
HasCycle(priorities) ==
    \E S \in SUBSET Range(priorities.nodes) :
        /\ S # {}
        /\ \A n \in S : \E m \in S : <<n, m>> \in priorities.edges

\* C6: the priority graph of every idea on the frontier, of the popped idea
\* and of every child Idea::branch builds is acyclic.
PrioritiesAcyclic == \A x \in Ideas : ~HasCycle(x.priorities)

\* Idea::branch is asked for a child whose edge would close a cycle
CycleRefused ==
    /\ pc = "branch"
    /\ pending # <<>>
    /\ <<Head(pending)[2], Head(pending)[1]>> \in idea.priorities.edges
    /\ <<Head(pending)[1], Head(pending)[2]>> \notin idea.priorities.edges

\* C7: a planning failure inside Idea::branch is no error of Pbs::solve, it
\* only drops that child and leaves the other pair to be tried; the result is
\* OutOfIdeas only from the head of the loop with an empty queue, and Ok only
\* from there with a popped idea none of whose pairs of routes conflict.
LocalRecovery ==
    /\ [][result' # result =>
             \/ /\ pc = "done"
                /\ result' = None
             \/ /\ pc \in {"parse", "parse.astar"}
                /\ result' \in {Some("RouteNotFound"), Some("NotFree")}
             \/ /\ pc = "pop"
                /\ queue = <<>>
                /\ result' = Some("OutOfIdeas")
             \/ /\ pc = "pop"
                /\ queue # <<>>
                /\ result' = Some("Ok")
                /\ robots' \in {queue[k].robots : k \in DOMAIN queue}
                /\ \A i, j \in DOMAIN robots' : i # j =>
                      ~conflicts(robots'[i].route, robots'[j].route)]_vars
    /\ [][pc = "plan.astar" /\ pc' \notin {"plan.astar", "plan"} =>
             /\ pc' = "branch"
             /\ pending' = Tail(pending)
             /\ queue' = queue]_vars
    /\ [][pc = "branch" /\ pc' # "branch" =>
             \/ pc' = "plan" /\ pending' = pending /\ pending # <<>>
             \/ pc' = "pop" /\ pending = <<>>]_vars

\* the replan for the first pair of the first idea failed and the child for
\* the other pair was pushed all the same
SiblingPushed ==
    /\ pc = "pop"
    /\ idea # NoIdea
    /\ idea.priorities.edges = {}
    /\ Len(queue) = 1
    /\ FirstConflict(idea, order) # None
    /\ LET ab == FirstConflict(idea, order)[1]
       IN  queue[1].priorities.edges = {<<ab[2], ab[1]>>}

\* the cells a robot can walk to from v over free cells
RECURSIVE Walk(_, _)
Walk(space, seen) ==
    LET next == {v \in space \ seen :
                    \E u \in seen : Abs(u[1] - v[1]) + Abs(u[2] - v[2]) = 1}
    IN  IF next = {} THEN seen ELSE Walk(space, seen \cup next)

CanReach(r) == r.goal \in Walk(layout.space, {r.position})

\* some robot stands on a free cell from which its free goal cannot be reached
SomeGoalCutOff ==
    \E n \in DOMAIN robots :
        /\ robots[n].position \in layout.space
        /\ robots[n].goal \in layout.space
        /\ ~CanReach(robots[n])

\* C8: when the goal of some robot is a free cell out of reach of its free
\* start, the plans of Shaman::parse end with RouteNotFound, which is what the
\* run returns, and PBS is never started.
CutOffGoalStopsParse ==
    SomeGoalCutOff =>
        /\ pc \in {"parse", "parse.astar", "done"}
        /\ queue = <<>>
        /\ pc = "done" => result = Some("RouteNotFound")

\* the run has ended on a map with a goal out of reach
CutOffGoalReturned == SomeGoalCutOff /\ pc = "done"

\* an all-free grid of height 1 with two robots on its two ends, each with
\* the start of the other as its goal
CorridorSwap ==
    /\ layout.height = 1
    /\ layout.space = {Vertex(x, 0) : x \in 0..(layout.width - 1)}
    /\ Cardinality(DOMAIN robots) = 2
    /\ \E i, j \in DOMAIN robots :
          /\ robots[i].position = Vertex(0, 0)
          /\ robots[j].position = Vertex(layout.width - 1, 0)
          /\ robots[i].goal = robots[j].position
          /\ robots[j].goal = robots[i].position

\* C9: with two robots on the two ends of a corridor of height 1 that have
\* to change places Pbs::solve ends with OutOfIdeas: the first idea is the
\* only one ever popped, each of the two pairs gets its replan (the graph has
\* no edge to refuse it), no replan comes to its end and no child is pushed.
CorridorSwapOutOfIdeas ==
    CorridorSwap =>
        /\ pc = "done" => result = Some("OutOfIdeas")
        /\ pc \in {"branch", "plan", "plan.astar"} =>
              /\ queue = <<>>
              /\ idea.priorities.edges = {}
        /\ pc = "plan" => plan_order # <<>>

\* the run on such a corridor has ended, the second replan having failed
CorridorSwapEnded ==
    /\ CorridorSwap
    /\ pc = "done"
    /\ result = Some("OutOfIdeas")
    /\ idea.priorities.edges = {}

\* two robots have the same goal cell and every robot can reach its goal
SharedGoal ==
    /\ \E i, j \in DOMAIN robots : i # j /\ robots[i].goal = robots[j].goal
    /\ \A n \in DOMAIN robots : CanReach(robots[n])

\* C10: when two robots have the same goal cell, each within reach,
\* Pbs::solve returns no plan and ends with OutOfIdeas; and no returned world
\* holds two routes that end on the same cell.
SharedGoalOutOfIdeas ==
    /\ SharedGoal => (pc = "done" => result = Some("OutOfIdeas"))
    /\ Returned =>
          \A i, j \in DOMAIN robots : i # j =>
              Last(robots[i].route).position # Last(robots[j].route).position

\* the run ended with OutOfIdeas on a shared goal that the two robots reach
\* at different times
SharedGoalEnded ==
    /\ SharedGoal
    /\ pc = "done"
    /\ result = Some("OutOfIdeas")
    /\ \E i, j \in DOMAIN idea.robots :
          /\ i # j
          /\ robots[i].goal = robots[j].goal
          /\ duration(idea.robots[i].route) < duration(idea.robots[j].route)

\* C11: the RightOfWay built from one route astar::solve returned answers
\* at(t) with the position of the route at t for every t from 0 to its
\* duration, and with its last position (the goal) for every later t.
RoundTrip ==
    \A r \in PlannedRobots :
        LET c == RightOfWayFrom(r.route)
        IN  /\ \A t \in 0..duration(r.route) :
                  at(c, t) = Some((CHOOSE l \in Range(r.route) : l.time = t).position)
            /\ \A t \in (duration(r.route) + 1)..(duration(r.route) + 3) :
                  at(c, t) = Some(r.goal)

\* Idea::plan holds the RightOfWay of exactly one route, of three or more
\* Locations
RightOfWayOfLongRoute ==
    /\ pc = "plan"
    /\ \E n \in DOMAIN child.robots :
          /\ n \notin Range(plan_order)
          /\ Len(child.robots[n].route) >= 3
          /\ constraints = RightOfWayFrom(child.robots[n].route)

\* Pbs::solve stands at its first pop with a world none of whose pairs of
\* routes intersect
FreshAndConflictFree ==
    /\ pc = "pop"
    /\ queue = <<[robots |-> robots, priorities |-> NoPriorities]>>
    /\ \A i, j \in DOMAIN robots : i # j =>
          intersection(robots[i].route, robots[j].route) = {}

\* C12: Pbs::solve on a world whose routes are pairwise free of conflicts
\* returns Ok at once, with the same route for every robot and the same sum
\* of durations, and no search of astar::solve is begun.
Idempotence ==
    [][FreshAndConflictFree =>
          /\ pc' = "done"
          /\ result' = Some("Ok")
          /\ \A n \in DOMAIN robots : robots'[n].route = robots[n].route
          /\ DOMAIN robots' = DOMAIN robots
          /\ IdeaCost(idea') = IdeaCost(queue[1])
          /\ search' = NoSearch]_vars

\* a second call of Shaman::solve has returned a world in which some robot
\* waits, that is, a world the first call had to replan
SolvedAgain ==
    /\ Returned
    /\ solves = 2
    /\ \E n \in DOMAIN robots : \E k \in 1..(Len(robots[n].route) - 1) :
          robots[n].route[k + 1].position = robots[n].route[k].position

\* astar::solve returns a route in this step
RouteReturned == InAstar /\ pc' \in {"parse", "plan"}

\* the robot the running search plans, and the route the step hands to it
Searcher == IF pc = "parse.astar" THEN robots[Head(todo)] ELSE child.robots[Head(plan_order)]

NewRoute ==
    IF pc = "parse.astar" THEN robots'[Head(todo)].route
    ELSE child'.robots[Head(plan_order)].route

\* the action of each step of a route, and the sum of their costs, the
\* action before the first step being the default one
StepAction(route, k) == VSub(route[k + 1].position, route[k].position)

RECURSIVE RouteCostUpTo(_, _)
RouteCostUpTo(route, k) ==
    IF k = 0 THEN 0
    ELSE RouteCostUpTo(route, k - 1)
           + cost(StepAction(route, k), IF k = 1 THEN "WAIT" ELSE StepAction(route, k - 1))

RouteCost(route) == RouteCostUpTo(route, Len(route) - 1)

\* a step from cell p at time t to cell q at time t + 1 stays on free cells
\* and has no vertex and no swap conflict with the RightOfWay c
StepAllowed(c, p, q, t) ==
    /\ q \in layout.space
    /\ at(c, t + 1) # Some(q)
    /\ ~(at(c, t) = Some(q) /\ at(c, t + 1) = Some(p))

\* the costs of the allowed routes to the goal of at most `horizon` steps,
\* the cheapest of every (time, last action) among them: layer holds
\* <<cell, last action, g>> for every (cell, last action) that allowed routes
\* of t steps end with, g the least cost of such a route
RECURSIVE ArrivalCostsFrom(_, _, _, _, _)
ArrivalCostsFrom(c, goal, layer, t, horizon) ==
    LET arrived == {s[3] : s \in {s \in layer : s[1] = goal}}
        steps == {sa \in layer \X Range(ALL) :
                     /\ sa[1][1] # goal
                     /\ StepAllowed(c, sa[1][1], VAdd(sa[1][1], direction(sa[2])), t)}
        ends == {<<VAdd(sa[1][1], direction(sa[2])), sa[2],
                   sa[1][3] + cost(sa[2], sa[1][2])>> : sa \in steps}
        next == {e \in ends : \A o \in ends : (o[1] = e[1] /\ o[2] = e[2]) => e[3] <= o[3]}
    IN  IF t >= horizon \/ layer = {} THEN arrived
        ELSE arrived \cup ArrivalCostsFrom(c, goal, next, t + 1, horizon)

ArrivalCosts(c, start, goal, horizon) ==
    ArrivalCostsFrom(c, goal, {<<start, "WAIT", 0>>}, 0, horizon)

\* C13: the route astar::solve returns has the least sum of action costs of
\* all routes from (start, 0) to the goal that stay on free cells and have no
\* vertex and no swap conflict with the RightOfWay.
ReturnedRouteOptimal ==
    [][RouteReturned =>
          \A g \in ArrivalCosts(search.constraint, Searcher.position, search.goal,
                                RouteCost(NewRoute)) :
              RouteCost(NewRoute) <= g]_vars

\* C14: every route astar::solve returns under a RightOfWay C respects C on
\* every step: at no time t from 1 to its duration is its position C.at(t),
\* and at no such t is C.at(t - 1) its position at t while C.at(t) is its
\* position at t - 1.
ReturnedRouteRespects ==
    [][RouteReturned =>
          \A k \in 2..Len(NewRoute) :
              LET t == NewRoute[k].time
              IN  /\ at(search.constraint, t) # Some(NewRoute[k].position)
                  /\ ~ /\ at(search.constraint, t - 1) = Some(NewRoute[k].position)
                        /\ at(search.constraint, t) = Some(NewRoute[k - 1].position)]_vars

\* Idea::plan has planned a subordinate after its boss, and the route of the
\* subordinate enters a cell of the route of the boss at another time
PlannedAroundBoss ==
    /\ pc = "plan"
    /\ plan_order = <<>>
    /\ \E e \in child.priorities.edges :
          LET boss == child.robots[e[1]].route
              sub  == child.robots[e[2]].route
          IN  \E k \in 2..Len(sub) : \E m \in 1..Len(boss) :
                  /\ sub[k].position = boss[m].position
                  /\ sub[k].time # boss[m].time
                  /\ at(constraints, boss[m].time) = Some(boss[m].position)

\* C15: Pbs::solve terminates: from every head of its loop the run comes,
\* after finitely many pops, to the return of a world or of OutOfIdeas.
PbsTerminates == (pc = "pop") ~> (pc = "done" /\ result \in {Some("Ok"), Some("OutOfIdeas")})

\* Pbs::solve has ended without a plan for three robots after it had popped
\* an idea with priorities
EndedAfterBranching ==
    /\ pc = "done"
    /\ result = Some("OutOfIdeas")
    /\ Cardinality(DOMAIN robots) = 3
    /\ idea.priorities.edges # {}

\* C16: astar::solve terminates on every input, also when the goal is out of
\* reach or reserved for good while the robot can go on waiting: no Location
\* in the open set is later than the number of turns of the loop so far, that
\* number never exceeds the limit, every search comes to its end, and a
\* search that ends without a route in Shaman::parse ends with RouteNotFound.
AstarTerminates ==
    /\ [](InAstar => /\ search.i <= IterLimit
                      /\ \A item \in search.open : item.location.time <= search.i)
    /\ InAstar ~> ~InAstar
    /\ [][pc = "parse.astar" /\ pc' = "done" => result' = Some("RouteNotFound")]_vars

\* a search under the RightOfWay of a boss has used up its turns with
\* Locations still open, all of them off the goal
SearchAtLimit ==
    /\ pc = "plan.astar"
    /\ search.i = IterLimit
    /\ search.open # {}
    /\ search.constraint.permanent # <<>>
    /\ \A item \in search.open : item.location.position # search.goal

\* a robot is handed to astar::solve with a blocked start or a blocked goal
BlockedEnd(n) ==
    is_blocked(layout, robots[n].position) \/ is_blocked(layout, robots[n].goal)

\* C17 as stated: when the start or the goal handed to astar::solve is
\* blocked (an obstacle or a cell beyond the grid) the result is the error
\* RouteNotFound.
BlockedEndsRouteNotFound ==
    (pc = "done" /\ \E n \in DOMAIN robots : BlockedEnd(n)) =>
        result = Some("RouteNotFound")

\* C17 as amended: when the start or the goal handed to astar::solve is
\* blocked, no search is begun and the result is the error of the ensure!
\* line that failed, which is not RouteNotFound.
BlockedEndsNotFree ==
    \A n \in DOMAIN robots : BlockedEnd(n) =>
        /\ robots[n].route = <<>>
        /\ pc = "parse.astar" => Head(todo) # n
        /\ pc \notin {"parse", "parse.astar"} => (pc = "done" /\ result = Some("NotFree"))

\* the run has ended for a robot on a free start whose goal is an obstacle
BlockedGoalRefused ==
    /\ pc = "done"
    /\ result = Some("NotFree")
    /\ \E n \in DOMAIN robots :
          /\ ~is_blocked(layout, robots[n].position)
          /\ robots[n].goal[1] < layout.width
          /\ is_blocked(layout, robots[n].goal)

\* the grid has two free cells, not adjacent, and two robots, one on each
TwoIsolatedCells ==
    /\ Cardinality(layout.space) = 2
    /\ \A u, v \in layout.space : Abs(u[1] - v[1]) + Abs(u[2] - v[2]) # 1
    /\ Cardinality(DOMAIN robots) = 2
    /\ {robots[n].position : n \in DOMAIN robots} = layout.space

\* C18 as stated: on a grid with nothing free but two cells that are not
\* adjacent, each the start of one robot, the plans of Shaman::parse followed
\* by Pbs::solve end with OutOfIdeas.
IsolatedCellsOutOfIdeas ==
    (TwoIsolatedCells /\ pc = "done") => result = Some("OutOfIdeas")

\* C18 as amended: on such a grid, every robot having its goal on one of the
\* two free cells, the run never ends with OutOfIdeas: it ends with
\* RouteNotFound in Shaman::parse when some robot has its goal on the cell of
\* the other, and with Ok when every robot has its goal on its own cell.
IsolatedCellsPlanning ==
    TwoIsolatedCells =>
        /\ result # Some("OutOfIdeas")
        /\ pc = "done" =>
              result = IF \A n \in DOMAIN robots : robots[n].goal = robots[n].position
                       THEN Some("Ok") ELSE Some("RouteNotFound")

\* the run on such a grid has ended, each robot having its goal on the cell
\* of the other
IsolatedCellsEnded ==
    /\ TwoIsolatedCells
    /\ pc = "done"
    /\ \A n \in DOMAIN robots : robots[n].goal # robots[n].position

\* C19: for a robot whose start is its (free) goal astar::solve returns,
\* under whatever RightOfWay, the route of the one Location (start, 0), of
\* duration 0; and the world of that robot alone is returned by Pbs::solve.
StartOnGoalPlanned ==
    /\ [][(InAstar /\ Searcher.position = search.goal) =>
              /\ RouteReturned
              /\ NewRoute = <<Location(Searcher.position, 0)>>
              /\ Len(NewRoute) = 1
              /\ duration(NewRoute) = 0]_vars
    /\ [](\A n \in DOMAIN robots :
              (/\ DOMAIN robots = {n}
               /\ robots[n].position = robots[n].goal
               /\ ~is_blocked(layout, robots[n].goal)
               /\ pc = "done") =>
                  /\ result = Some("Ok")
                  /\ robots[n].route = <<Location(robots[n].position, 0)>>)

\* the world of one robot that stands on its goal has been returned
LoneRobotOnGoalReturned ==
    /\ Returned
    /\ \E n \in DOMAIN robots :
          /\ DOMAIN robots = {n}
          /\ robots[n].position = robots[n].goal
          /\ Len(robots[n].route) = 1

\* Shaman::simulate has been called this many times on the returned world
Replayed(calls) == pc \in {"replay", "shown"} /\ replay[1].ticks = calls

EveryRobotOnGoal == \A n \in DOMAIN robots : robots[n].position = robots[n].goal

\* C20 as stated: after exactly simulation_duration(world) calls of
\* Shaman::simulate on a solved world every robot stands on its goal.
ReplayedForDuration ==
    (replay # None /\ Replayed(replay[1].span)) => EveryRobotOnGoal

\* C20 as amended: after exactly simulation_duration(world) + 1 calls of
\* Shaman::simulate on a solved world, the calls of the loop of level, every
\* robot stands on its goal and its route is used up.
ReplayedToGoals ==
    (replay # None /\ Replayed(replay[1].span + 1)) =>
        /\ EveryRobotOnGoal
        /\ \A n \in DOMAIN robots : robots[n].route = <<>>

\* the replay of a world of two robots with routes of different durations,
\* the longer of two steps or more, has made all its calls
ReplayedUnevenRoutes ==
    /\ pc = "shown"
    /\ replay[1].span >= 2
    /\ replay[1].ticks = replay[1].span + 1
    /\ \E n \in DOMAIN idea.robots : duration(idea.robots[n].route) = replay[1].span
    /\ \E n \in DOMAIN idea.robots :
          /\ duration(idea.robots[n].route) < replay[1].span
          /\ duration(idea.robots[n].route) > 0

\* the world of SideStep, before any replay of it
OnSideStep ==
    /\ layout = SideStep.layout
    /\ DOMAIN robots = DOMAIN SideStep.ends
    /\ \A n \in DOMAIN robots :
          <<robots[n].position, robots[n].goal>> = SideStep.ends[n]

VisitsRow(route, y) == \E k \in 1..Len(route) : route[k].position[2] = y

\* C21: on the all-free grid of three columns and two rows with A from (0,0)
\* to (2,0) and B from (2,0) to (0,0), Shaman::parse followed by Pbs::solve
\* returns a plan, in which exactly one of the two robots visits a cell of
\* row 1 while the other stays in row 0.
SideStepSolved ==
    (OnSideStep /\ pc = "done") =>
        /\ result = Some("Ok")
        /\ \E i, j \in DOMAIN robots :
              /\ i # j
              /\ VisitsRow(robots[i].route, 1)
              /\ ~VisitsRow(robots[j].route, 1)

\* the plan for that world has been returned
SideStepReturned == OnSideStep /\ Returned /\ idea.priorities.edges # {}

\* Idea::plan has returned Ok: every node of the child's graph is replanned
ReplanReturned == pc = "plan" /\ plan_order = <<>>

\* the pairs <<u, v>> with u before v in the graph, directly or transitively
Precedes(priorities) ==
    {uv \in Range(priorities.nodes) \X Range(priorities.nodes) :
        uv[2] \in Downstream(priorities.edges, uv[1])}

\* C22: when Idea::plan has returned Ok inside Idea::branch, then for every
\* two robots u, v with u before v in the child's priority graph, directly or
\* transitively, the route of v has no Location, no swap and no shared last
\* cell in common with the route of u, also where v comes after two or more
\* robots whose RightOfWays were summed up.
ReplanRespectsBosses ==
    ReplanReturned =>
        \A uv \in Precedes(child.priorities) :
            ~conflicts(child.robots[uv[2]].route, child.robots[uv[1]].route)

\* no time is a key of both temporary maps with two different cells
TemporariesAgree(self, other) ==
    \A t \in (DOMAIN self.temporary) \cap (DOMAIN other.temporary) :
        self.temporary[t] = other.temporary[t]

\* C23: whenever Idea::plan adds the RightOfWay of the route it just got to
\* the RightOfWay summed up so far, the two temporary maps hold no two
\* different cells under one time, so that extend overwrites nothing.
MergedTemporariesAgree ==
    [][(pc = "plan.astar" /\ pc' = "plan" /\ plan_order' # plan_order) =>
          TemporariesAgree(constraints,
                           RightOfWayFrom(child'.robots[Head(plan_order)].route))]_vars

\* the robots before n in the graph, directly or transitively
Bosses(priorities, n) ==
    {u \in Range(priorities.nodes) : n \in Downstream(priorities.edges, u)}

\* the nodes Idea::plan has planned already
PlannedNodes == Range(child.priorities.nodes) \ Range(plan_order)

\* the permanent entry the RightOfWay of the route of n holds
GoalHold(n) ==
    [from |-> duration(child.robots[n].route), v |-> Last(child.robots[n].route).position]

\* C24 as the spec has it: in Idea::plan a robot is planned against a
\* RightOfWay that holds reservations of the robots before it in the graph
\* only, and a robot with no robot before it against the empty RightOfWay.
PlannedAgainstBossesOnly ==
    pc = "plan.astar" =>
        LET n == Head(plan_order)
            bosses == Bosses(child.priorities, n)
        IN  /\ Range(search.constraint.permanent) \subseteq {GoalHold(u) : u \in bosses}
            /\ bosses = {} => search.constraint = EmptyRightOfWay

\* C24: in Idea::plan a robot is planned against the RightOfWay summed up from
\* the routes of all robots planned before it in the topological order, the
\* robots before it in the graph among them; it holds the last Location of
\* each of those routes from its time on, and it is empty for the first robot
\* of the order only.
PlannedAgainstEarlier ==
    pc = "plan.astar" =>
        LET n == Head(plan_order)
        IN  /\ Bosses(child.priorities, n) \subseteq PlannedNodes
            /\ Range(search.constraint.permanent) = {GoalHold(u) : u \in PlannedNodes}
            /\ Len(search.constraint.permanent) = Cardinality(PlannedNodes)
            /\ \A u \in PlannedNodes : \A t \in 0..(duration(child.robots[u].route) - 1) :
                  t \in DOMAIN search.constraint.temporary
            /\ search.constraint = EmptyRightOfWay <=> PlannedNodes = {}

\* a robot with no robot before it in the graph is being planned after a
\* robot that moved
PlannedAfterStranger ==
    /\ pc = "plan.astar"
    /\ Bosses(child.priorities, Head(plan_order)) = {}
    /\ \E u \in PlannedNodes : duration(child.robots[u].route) > 0

\* the items the step pushes on the open set of the running search
Pushed == IF search' = NoSearch \/ search = NoSearch THEN {} ELSE search'.open \ search.open

\* what the step added to the score of the popped Location for the pushed
\* item: its cost is tentative_g + h (astar.rs:193-199)
PushedStepCost(item) ==
    item.cost - distance_squared(item.location.position, search.goal)
              - search.scores[item.came_from[1].location]

\* the action that led to the item
ActionOf(item) == VSub(item.location.position, item.came_from[1].location.position)

\* C26 as the spec has it: the cost astar::solve adds for an action is 1 for
\* WAIT, 1 for an action that repeats the previous one, and 2 for an action
\* other than the previous one, the action before the first step being WAIT.
ActionCostOneOneTwo ==
    [][\A item \in Pushed :
          PushedStepCost(item) =
              IF ActionOf(item) = "WAIT" THEN 1
              ELSE IF ActionOf(item) = PreviousAction(item.came_from[1]) THEN 1
              ELSE 2]_vars

\* C26: the cost astar::solve adds for an action is 1 for WAIT, 2 for an
\* action that repeats the previous one, and 5 for an action other than the
\* previous one, the action before the first step being WAIT.
ActionCostOneTwoFive ==
    [][\A item \in Pushed :
          PushedStepCost(item) =
              IF ActionOf(item) = "WAIT" THEN 1
              ELSE IF ActionOf(item) = PreviousAction(item.came_from[1]) THEN 2
              ELSE 5]_vars

\* the open set holds an item pushed for a wait, one pushed for a step
\* straight on, and one pushed for a turn
WaitStraightAndTurnPushed ==
    /\ search # NoSearch
    /\ \E w, g, t \in {item \in search.open : item.came_from # None} :
          /\ ActionOf(w) = "WAIT"
          /\ ActionOf(g) # "WAIT"
          /\ ActionOf(g) = PreviousAction(g.came_from[1])
          /\ ActionOf(t) # "WAIT"
          /\ ActionOf(t) # PreviousAction(t.came_from[1])

\* C27 as the spec has it: astar::solve expands no popped node whose time is
\* above Layout::free_cell_count, so that no Location with a time above
\* free_cell_count + 1 is ever pushed on the open set.
PushedWithinFreeCells ==
    search # NoSearch =>
        \A item \in search.open : item.location.time <= free_cell_count(layout) + 1

\* C27: astar::solve expands a popped node whatever its time; what bounds the
\* search is the count of its pops, MAX_ITER, and the time of a Location on
\* the open set is at most the number of pops made so far.
PushedWithinPops ==
    search # NoSearch =>
        /\ search.i <= IterLimit
        /\ \A item \in search.open : item.location.time <= search.i

\* an item whose time is above the number of free cells has been expanded
ExpandedBeyondFreeCells ==
    /\ search # NoSearch
    /\ \E item \in search.open :
          /\ item.came_from # None
          /\ item.came_from[1].location.time > free_cell_count(layout)

\* C28: every idea Pbs::solve pops has a cost, the sum of the durations of
\* its routes, at most that of every idea left in the queue at that moment,
\* and a returned world costs no more than any idea left in the queue.
LowestCostFirst ==
    /\ [][(pc = "pop" /\ Len(queue') = Len(queue) - 1) =>
             \A k \in DOMAIN queue' : IdeaCost(idea') <= IdeaCost(queue'[k])]_vars
    /\ [](Returned => \A k \in DOMAIN queue : IdeaCost(idea) <= IdeaCost(queue[k]))

\* an idea has just been popped while the queue held a costlier one
PoppedBeforeCostlier ==
    /\ pc = "branch"
    /\ Len(pending) = 2
    /\ \E k \in DOMAIN queue : IdeaCost(idea) < IdeaCost(queue[k])

\* the routes astar::solve returned that the state holds
PlannedRoutes == {r.route : r \in PlannedRobots}

\* class 1: a Location of r and one of s have the same position and time
SameCellSameTime(r, s) ==
    \E i \in DOMAIN r, j \in DOMAIN s :
        r[i].time = s[j].time /\ r[i].position = s[j].position

\* class 2: both routes end on the same cell
SameLastCell(r, s) == r[Len(r)].position = s[Len(s)].position

\* class 3: two consecutive Locations of r and the two of s that start at the
\* same time exchange their positions
ExchangeCells(r, s) ==
    \E i \in 1..(Len(r) - 1), j \in 1..(Len(s) - 1) :
        /\ r[i].time = s[j].time
        /\ r[i].position = s[j + 1].position
        /\ s[j].position = r[i + 1].position

\* C30: for any two routes r and s astar::solve returned, Route::conflicts(r,
\* s) is true exactly if a Location belongs to both, or both end on the same
\* cell, or two consecutive Locations of r and the two of s of the same time
\* exchange positions; and conflicts(r, s) = conflicts(s, r).
ConflictsIffClasses ==
    \A r, s \in PlannedRoutes :
        /\ conflicts(r, s) <=>
              (SameCellSameTime(r, s) \/ SameLastCell(r, s) \/ ExchangeCells(r, s))
        /\ conflicts(r, s) <=> conflicts(s, r)

\* two routes of the state conflict by an exchange of cells alone, two by a
\* common last cell alone, and two not at all
EveryClassAlone ==
    /\ \E r, s \in PlannedRoutes :
          ExchangeCells(r, s) /\ ~SameCellSameTime(r, s) /\ ~SameLastCell(r, s)
    /\ \E r, s \in PlannedRoutes :
          SameLastCell(r, s) /\ ~SameCellSameTime(r, s) /\ ~ExchangeCells(r, s)
    /\ \E r, s \in PlannedRoutes : ~conflicts(r, s)

\* the robots of the child whose routes C25 as the spec has it calls the
\* parent's: all but the subordinate of the new edge and the robots after its
\* boss in the child's graph
KeptByBranch ==
    (DOMAIN child.robots) \
        ({Head(pending)[2]} \cup Downstream(child.priorities.edges, Head(pending)[1]))

LastReserved(constraint) ==
    LET times == (DOMAIN constraint.temporary) \cup
                 {constraint.permanent[k].from : k \in DOMAIN constraint.permanent}
    IN  IF times = {} THEN 0
        ELSE CHOOSE t \in times : \A u \in times : u <= t

\* C31: when astar::solve returns a route that arrives at the goal G at time
\* D under the RightOfWay C, C reserves G at no later time: C.at(t) # G for
\* every t > D.
GoalFreeAfterArrival ==
    [][RouteReturned =>
          \A t \in (duration(NewRoute) + 1)..(LastReserved(search.constraint) + 1) :
              at(search.constraint, t) # Some(search.goal)]_vars

\* the g value behind an item of the open set: its cost without the
\* heuristic of its Location (astar.rs:197-199)
GOf(item) == item.cost - distance_squared(item.location.position, search.goal)

\* C32: in astar::solve the g value behind every item an expansion pushed on
\* the open set (the start item is pushed with the cost 0) is the sum of the
\* action costs along the item's own came_from chain from the start, so that the goal item is popped under the action cost of the route
\* read back from it, also when a Location was scored again with a lower g
\* through another parent.
ItemCostIsChainCost ==
    search # NoSearch =>
        \A item \in search.open :
            item.came_from # None => GOf(item) = RouteCost(Backtrack(item))

====
